---- MODULE Spec2Model ----
(***************************************************************************)
(* Model of scripts/convert_icons.py: the batch conversion of the toolbar  *)
(* PNG icons to 48x48 BMP files with a magenta transparency key.           *)
(*                                                                         *)
(* The state is the file system under BASE_DIR (the source PNGs in         *)
(* material/, the BMPs beside it), the write permissions of its paths, and *)
(* the position of main(): its loop index, its success counter, what it    *)
(* printed.  An image is a record [mode, size, data] whose data is a       *)
(* sequence of rows of pixels, a pixel being a tuple of band values        *)
(* (a single integer for a one-band image).                                *)
(***************************************************************************)
EXTENDS Integers, Sequences, FiniteSets, TLC

VARIABLES files,     \* path -> file contents (NoFile when there is none)
          readonly,  \* the paths a write to which is denied
          pc,        \* "idle" | "loop" | "done" | "crashed" | "called"
          run,       \* how many times the script has been started
          idx,       \* main(): position of the for loop in ICONS (1-based)
          success,   \* main(): the local counter
          stdout,    \* the lines printed by the current run (or call)
          calls,     \* history: the names convert_icon was called with, this run
          results,   \* history: what each of those calls returned, this run
          first,     \* history: how the first run ended
          last,      \* history: the direct call of convert_icon and how it ended
          frame      \* history: the locals that call had built

vars == <<files, readonly, pc, run, idx, success, stdout, calls, results, first,
          last, frame>>

----------------------------------------------------------------------------
(* Module-level constants of the script.                                    *)

ICON_SIZE == 48
MAGENTA == <<255, 0, 255>>
DARK_GRAY == <<60, 60, 60>>

ICONS == <<"new_vm", "edit", "delete", "start", "stop", "reboot", "shutdown">>

\* Paths are written relative to BASE_DIR: SRC_DIR is BASE_DIR/material and
\* DST_DIR is BASE_DIR itself.
SRC_DIR == "material/"
DST_DIR == ""

SrcPath(name) == SRC_DIR \o name \o ".png"
DstPath(name) == DST_DIR \o name \o ".bmp"

----------------------------------------------------------------------------
(* The image primitives the script uses.                                    *)

Width(im) == im.size[1]
Height(im) == im.size[2]

\* A function over 1..n as the sequence it is, its elements computed once.
AsSeq(f) == f \o <<>>

\* Image.new(mode, size, color)
ImageNew(mode, size, color) ==
    [mode |-> mode, size |-> size,
     data |-> AsSeq([y \in 1..size[2] |-> AsSeq([x \in 1..size[1] |->
                 color])])]

\* Image.convert("RGBA"): an image without alpha becomes fully opaque, a
\* greyscale one repeats its value in the three colour bands.
ConvertRGBA(im) ==
    [mode |-> "RGBA", size |-> im.size,
     data |-> AsSeq([y \in 1..Height(im) |-> AsSeq([x \in 1..Width(im) |->
                 LET p == im.data[y][x]
                 IN CASE im.mode = "RGBA" -> p
                      [] im.mode = "RGB" -> <<p[1], p[2], p[3], 255>>
                      [] im.mode = "L" -> <<p, p, p, 255>>])])]

\* Image.resize(size, LANCZOS): an image of exactly the requested size, each
\* of whose pixels is computed from the source pixels around the place it
\* maps back to.  The filter's weights are the library's; here the new pixel
\* takes the source pixel its position falls in.
Resize(im, size) ==
    [mode |-> im.mode, size |-> size,
     data |-> AsSeq([y \in 1..size[2] |-> AsSeq([x \in 1..size[1] |->
                 im.data[((y - 1) * Height(im)) \div size[2] + 1]
                        [((x - 1) * Width(im)) \div size[1] + 1]])])]

\* Image.split(): one single-band image per band.
NumBands(mode) == CASE mode = "RGBA" -> 4 [] mode = "RGB" -> 3 [] mode = "L" -> 1

Split(im) ==
    [i \in 1..NumBands(im.mode) |->
       [mode |-> "L", size |-> im.size,
        data |-> AsSeq([y \in 1..Height(im) |-> AsSeq([x \in 1..Width(im) |->
                 im.data[y][x][i]])])]]

\* Image.point(f) on a single-band image: f is tabulated for the 256 values
\* (lut) and the table applied to every value.
Point(im, lut) ==
    [mode |-> im.mode, size |-> im.size,
     data |-> AsSeq([y \in 1..Height(im) |-> AsSeq([x \in 1..Width(im) |->
                 lut[im.data[y][x]]])])]

\* Image.merge(mode, bands)
Merge(mode, bands) ==
    [mode |-> mode, size |-> bands[1].size,
     data |-> AsSeq([y \in 1..Height(bands[1]) |-> AsSeq([x \in 1..Width(bands[1]) |->
                 AsSeq([i \in 1..Len(bands) |-> bands[i].data[y][x]])])])]

\* The library's rounding division by 255 and its blend of two band values
\* under a mask value.
DIV255(a) == LET tmp == a + 128 IN ((tmp \div 256) + tmp) \div 256

BLEND(mask, in1, in2) == DIV255(in1 * (255 - mask) + in2 * mask)

Paste_unmasked(base, im, mask) ==
    [mode |-> base.mode, size |-> base.size,
     data |-> AsSeq([y \in 1..Height(base) |-> AsSeq([x \in 1..Width(base) |->
                 AsSeq([i \in 1..NumBands(base.mode) |-> im.data[y][x][i]])])])]

\* Image.paste(im, mask=mask) into an RGB image, at the origin: each colour
\* band of each pixel is the blend of the old and the pasted value.
Paste(base, im, mask) ==
    [mode |-> base.mode, size |-> base.size,
     data |-> AsSeq([y \in 1..Height(base) |-> AsSeq([x \in 1..Width(base) |->
                 IF y <= Height(im) /\ x <= Width(im)
                 THEN AsSeq([i \in 1..NumBands(base.mode) |->
                         BLEND(mask.data[y][x], base.data[y][x][i], im.data[y][x][i])])
                 ELSE base.data[y][x]])])]

----------------------------------------------------------------------------
(* Files.                                                                   *)

NoFile == [fmt |-> "none", ok |-> FALSE]
Corrupt == [fmt |-> "PNG", ok |-> FALSE]

PngFile(im) == [fmt |-> "PNG", ok |-> TRUE, image |-> im]

\* Image.save(path, "BMP") of an RGB image: an uncompressed bitmap of 24
\* bits per pixel, each pixel stored as its blue, green and red bytes.
BmpPixel(p) == p[3] + 256 * p[2] + 65536 * p[1]

BmpFile(im) ==
    [fmt |-> "BMP", ok |-> TRUE, size |-> im.size, bits |-> 8 * NumBands(im.mode),
     rows |-> AsSeq([y \in 1..Height(im) |-> AsSeq([x \in 1..Width(im) |->
                 BmpPixel(im.data[y][x])])])]

\* The colour a bitmap file holds at column x of row y.
BmpColour(file, x, y) ==
    LET v == file.rows[y][x]
    IN <<v \div 65536, (v \div 256) % 256, v % 256>>

\* Path.exists()
Exists(fs, path) == fs[path].fmt # "none"

\* Whether Image.open(path).convert(...) can decode the file.
Decodable(file) == file.ok

\* Image.open(path): the image a decodable file holds.
ImageOpen(fs, path) == fs[path].image

----------------------------------------------------------------------------
(* convert_icon(name)                                                       *)

\* The three lookups handed to Image.point.
AlphaThreshold_from128(x) == IF x >= 128 THEN 255 ELSE 0

AlphaThreshold(x) == IF x > 128 THEN 255 ELSE 0

RecolorR_upto50(x) == IF x <= 50 THEN DARK_GRAY[1] ELSE x

RecolorR(x) == IF x < 50 THEN DARK_GRAY[1] ELSE x

RecolorG_kept(x) == x

RecolorG(x) == IF x < 50 THEN DARK_GRAY[2] ELSE x

RecolorB(x) == IF x < 50 THEN DARK_GRAY[3] ELSE x

NoFrame == [name |-> ""]

Skipped_unlink(name, fs) ==
    [raised |-> FALSE, ret |-> FALSE,
     files |-> [fs EXCEPT ![DstPath(name)] = [fmt |-> "none", ok |-> FALSE]],
     frame |-> [name |-> ""],
     out |-> <<"  [SKIP] " \o SrcPath(name) \o " not found">>]

\* The source is not there: the notice, and False.
Skipped(name, fs) ==
    [raised |-> FALSE, ret |-> FALSE, files |-> fs, frame |-> NoFrame,
     out |-> <<"  [SKIP] " \o SrcPath(name) \o " not found">>]

\* A library call raised: convert_icon has no handler, the exception leaves it.
Raised(fs, locals) ==
    [raised |-> TRUE, ret |-> FALSE, files |-> fs, frame |-> locals, out |-> <<>>]

Canvas_rgba == ImageNew("RGBA", <<ICON_SIZE, ICON_SIZE>>, <<255, 0, 255, 255>>)

\* The RGB image with the magenta background.
Canvas == ImageNew("RGB", <<ICON_SIZE, ICON_SIZE>>, MAGENTA)

\* The source is there: decode, resize, threshold, recolour, composite, save.
Converted(name, fs, ro) ==
    LET src_path == SrcPath(name)
        dst_path == DstPath(name)
    IN IF ~Decodable(fs[src_path]) THEN Raised(fs, NoFrame)
       ELSE LET img0 == Resize(ConvertRGBA(ImageOpen(fs, src_path)),
                               <<ICON_SIZE, ICON_SIZE>>)
                bands == Split(img0)
                a == Point(bands[4], [x \in 0..255 |-> AlphaThreshold(x)])
                r == Point(bands[1], [x \in 0..255 |-> RecolorR(x)])
                g == Point(bands[2], [x \in 0..255 |-> RecolorG(x)])
                b == Point(bands[3], [x \in 0..255 |-> RecolorB(x)])
                img == Merge("RGBA", <<r, g, b, a>>)
                result == Paste(Canvas, img, Split(img)[4])
                locals == [name |-> name, resized |-> img0, img |-> img,
                           result |-> result]
            IN \* dst_path.parent is BASE_DIR, which holds material/ and so
               \* exists: the mkdir changes nothing.
               IF dst_path \in ro THEN Raised(fs, locals)
               ELSE [raised |-> FALSE, ret |-> TRUE,
                     files |-> [fs EXCEPT ![dst_path] = BmpFile(result)],
                     frame |-> locals,
                     out |-> <<"  [OK] " \o name \o ".bmp">>]

convert_icon_fresh(name, fs, ro) ==
    IF ~Exists(fs, SrcPath(name)) \/ Exists(fs, DstPath(name))
    THEN Skipped(name, fs)
    ELSE Converted(name, fs, ro)

\* What one call does: whether it raised, what it returned, the file system
\* and the printed lines after it, and the locals it had built.
convert_icon(name, fs, ro) ==
    IF ~Exists(fs, SrcPath(name)) THEN Skipped(name, fs) ELSE Converted(name, fs, ro)

----------------------------------------------------------------------------
(* The files the script is run on.                                          *)

Names == {ICONS[i] : i \in 1..Len(ICONS)}

\* A name the script has no entry for: it has no source, and DST_DIR holds a
\* bitmap of that name.
OtherName == "toolbar"

Paths == {SrcPath(n) : n \in Names \cup {OtherName}}
            \cup {DstPath(n) : n \in Names \cup {OtherName}}

\* 16x16, every alpha value and every red value once; the opaque half has
\* red 1..127.
GradientPixel(x, y) ==
    LET v == 16 * (y - 1) + (x - 1)
    IN <<v, 255 - v, (2 * v) % 256, (v + 128) % 256>>

\* 4x4, an opaque black square in a transparent surround.
SquarePixel(x, y) ==
    IF x \in 2..3 /\ y \in 2..3 THEN <<0, 0, 0, 255>> ELSE <<0, 0, 0, 0>>

\* 1x1, opaque and of the key colour itself.
KeyPixel(x, y) == <<255, 0, 255, 255>>

\* 50x3, larger than the icon in one direction, alpha around the threshold.
StripPixel(x, y) ==
    <<(5 * x) % 256, 48 + (x % 4), 255 - y, IF x % 2 = 0 THEN 129 ELSE 128>>

\* 3x2 without an alpha band.
RgbPixel(x, y) ==
    LET t == <<<<49, 50, 51>>, <<0, 0, 0>>, <<255, 0, 255>>,
               <<50, 49, 200>>, <<255, 255, 255>>, <<200, 10, 10>>>>
    IN t[3 * (y - 1) + x]

\* 2x2, one high channel with two low ones, alpha at both sides of the threshold.
MixedPixel(x, y) ==
    LET t == <<<<200, 10, 10, 255>>, <<0, 0, 0, 128>>,
               <<49, 50, 49, 129>>, <<255, 0, 255, 0>>>>
    IN t[2 * (y - 1) + x]

\* 3x2 greyscale.
GreyPixel(x, y) ==
    LET t == <<0, 49, 50, 128, 129, 255>>
    IN t[3 * (y - 1) + x]

\* An image of mode and size w x h whose pixel at column x of row y is f[y][x].
Pixmap(mode, w, h, f) ==
    [mode |-> mode, size |-> <<w, h>>,
     data |-> AsSeq([y \in 1..h |-> AsSeq([x \in 1..w |-> f[y][x]])])]

SourceImage(name) ==
    CASE name = "new_vm" -> Pixmap("RGBA", 16, 16,
                [y \in 1..16 |-> [x \in 1..16 |-> GradientPixel(x, y)]])
      [] name = "edit" -> Pixmap("RGBA", 4, 4,
                [y \in 1..4 |-> [x \in 1..4 |-> SquarePixel(x, y)]])
      [] name = "delete" -> Pixmap("RGBA", 1, 1,
                [y \in 1..1 |-> [x \in 1..1 |-> KeyPixel(x, y)]])
      [] name = "start" -> Pixmap("RGBA", 50, 3,
                [y \in 1..3 |-> [x \in 1..50 |-> StripPixel(x, y)]])
      [] name = "stop" -> Pixmap("RGB", 3, 2,
                [y \in 1..2 |-> [x \in 1..3 |-> RgbPixel(x, y)]])
      [] name = "reboot" -> Pixmap("RGBA", 2, 2,
                [y \in 1..2 |-> [x \in 1..2 |-> MixedPixel(x, y)]])
      [] name = "shutdown" -> Pixmap("L", 3, 2,
                [y \in 1..2 |-> [x \in 1..3 |-> GreyPixel(x, y)]])

\* What DST_DIR holds before the first run: bitmaps left by an earlier icon
\* set for some names (one of another size), none for the others.
OldBitmap(name) ==
    CASE name = "edit" -> BmpFile(ImageNew("RGB", <<ICON_SIZE, ICON_SIZE>>, <<1, 2, 3>>))
      [] name = "start" -> BmpFile(ImageNew("RGB", <<32, 32>>, <<255, 255, 255>>))
      [] name = "shutdown" -> BmpFile(ImageNew("RGB", <<ICON_SIZE, ICON_SIZE>>, MAGENTA))
      [] name = OtherName -> BmpFile(ImageNew("RGB", <<1, 1>>, <<7, 7, 7>>))
      [] OTHER -> NoFile

InitialFiles(missing, bad) ==
    [p \in Paths |->
       LET n == CHOOSE m \in Names \cup {OtherName} : p \in {SrcPath(m), DstPath(m)}
       IN IF p = DstPath(n) THEN OldBitmap(n)
          ELSE IF n \in missing \/ n = OtherName THEN NoFile
          ELSE IF n \in bad THEN Corrupt
          ELSE PngFile(SourceImage(n))]

----------------------------------------------------------------------------
(* main()                                                                   *)

MaxRuns == 2
MaxMissingWithFault == 1

NoFirst == [pc |-> "none"]

NoCall == [name |-> "", raised |-> FALSE, ret |-> FALSE]

Count_all(n, ret) == n + 1

\* if convert_icon(name): success += 1
Count(n, ret) == IF ret THEN n + 1 ELSE n

Advance_break(i, ret) == IF ret THEN i + 1 ELSE Len(ICONS) + 1

\* The for loop goes on to the next name whatever the call returned.
Advance(i, ret) == i + 1

Propagates_caught(c) == FALSE

\* main() has no handler either: an exception of the call ends the script.
Propagates(c) == c.raised

\* How a run ended, kept for the first run.
Ending(p, res, n, lines) ==
    [pc |-> p, results |-> res, success |-> n, stdout |-> lines]

\* Any subset of the seven sources is there.  At most one file is faulty (an
\* undecodable source, or a destination that cannot be written), since a run
\* ends at the first faulty file it meets; with a faulty file, at most
\* MaxMissingWithFault sources are missing.
Init ==
    \E missing \in SUBSET Names, bad \in SUBSET Names, denied \in SUBSET Names :
       /\ Cardinality(bad) + Cardinality(denied) <= 1
       /\ (bad \cup denied) \cap missing = {}
       /\ (bad \cup denied # {}) => Cardinality(missing) <= MaxMissingWithFault
       /\ files = InitialFiles(missing, bad)
       /\ readonly = {DstPath(n) : n \in denied}
       /\ pc = "idle"
       /\ run = 0
       /\ idx = 1
       /\ success = 0
       /\ stdout = <<>>
       /\ calls = <<>>
       /\ results = <<>>
       /\ first = NoFirst
       /\ last = NoCall
       /\ frame = NoFrame

\* The script is started: main() up to its loop.
main_start ==
    /\ pc \in {"idle", "done", "crashed"}
    /\ run < MaxRuns
    /\ run' = run + 1
    /\ pc' = "loop"
    /\ stdout' = <<"Source: " \o SRC_DIR, "Output: " \o DST_DIR, "">>
    /\ success' = 0
    /\ idx' = 1
    /\ calls' = <<>>
    /\ results' = <<>>
    /\ UNCHANGED <<files, readonly, first, last, frame>>

\* One iteration of the loop: convert_icon(name), then the count.
main_loop ==
    /\ pc = "loop"
    /\ idx <= Len(ICONS)
    /\ \E c \in {convert_icon(ICONS[idx], files, readonly)} :
          /\ files' = c.files
          /\ calls' = Append(calls, ICONS[idx])
          /\ stdout' = stdout \o c.out
          /\ IF Propagates(c)
             THEN \* the exception leaves main(): the script ends
                  /\ pc' = "crashed"
                  /\ UNCHANGED <<idx, success, results>>
                  /\ first' = IF run = 1
                              THEN Ending("crashed", results, success, stdout')
                              ELSE first
             ELSE /\ pc' = "loop"
                  /\ idx' = Advance(idx, c.ret)
                  /\ success' = Count(success, c.ret)
                  /\ results' = Append(results, c.ret)
                  /\ first' = first
    /\ UNCHANGED <<readonly, run, last, frame>>

\* The loop is over: the summary.
main_summary ==
    /\ pc = "loop"
    /\ idx > Len(ICONS)
    /\ pc' = "done"
    /\ stdout' = stdout \o <<"", "Converted " \o ToString(success) \o "/"
                                  \o ToString(Len(ICONS)) \o " icons">>
    /\ first' = IF run = 1
                THEN Ending("done", results, success, stdout')
                ELSE first
    /\ UNCHANGED <<files, readonly, run, idx, success, calls, results, last, frame>>

Next == main_start \/ main_loop \/ main_summary

Spec == Init /\ [][Next]_vars

\* convert_icon called on its own, once, with any name.
call_convert_icon ==
    /\ pc = "idle"
    /\ \E name \in Names \cup {OtherName} :
         \E c \in {convert_icon(name, files, readonly)} :
            /\ files' = c.files
            /\ last' = [name |-> name, raised |-> c.raised, ret |-> c.ret]
            /\ frame' = c.frame
            /\ stdout' = c.out
    /\ pc' = "called"
    /\ UNCHANGED <<readonly, run, idx, success, calls, results, first>>

NextCall == call_convert_icon

SpecCall == Init /\ [][NextCall]_vars

----------------------------------------------------------------------------
(* Properties of one call of convert_icon.                                  *)

AnyName == Names \cup {OtherName}

Rows == 1..ICON_SIZE
Cols == 1..ICON_SIZE

\* A bitmap file of exactly 48x48 pixels of three colour bytes each.
IsIconBmp(f) ==
    /\ f.fmt = "BMP"
    /\ f.size = <<ICON_SIZE, ICON_SIZE>>
    /\ f.bits = 24
    /\ Len(f.rows) = ICON_SIZE
    /\ \A y \in Rows : /\ Len(f.rows[y]) = ICON_SIZE
                       /\ \A x \in Cols : f.rows[y][x] \in 0..(256 * 256 * 256 - 1)

\* The step is a call of convert_icon(n).
CallOf(n) == pc = "idle" /\ pc' = "called" /\ last'.name = n

\* The call of convert_icon(n) returned True and wrote DstPath(n), a 48x48
\* bitmap of 24 bits per pixel holding the image it built, and nothing else.
WroteIcon(n) ==
    /\ last'.ret
    /\ ~last'.raised
    /\ IsIconBmp(files'[DstPath(n)])
    /\ files'[DstPath(n)] = BmpFile(frame'.result)
    /\ \A p \in Paths \ {DstPath(n)} : files'[p] = files[p]

HasFrame == frame.name # ""

(* C1: a call of convert_icon for a name whose source file is not there
   returns False, raises no exception and leaves every file, a bitmap of that
   name included, as it was. *)
C1_MissingSource ==
    [][\A n \in AnyName :
          (CallOf(n) /\ ~Exists(files, SrcPath(n)))
             => (last'.ret = FALSE /\ ~last'.raised /\ files' = files)]_vars

C1_Witness ==
    /\ pc = "called"
    /\ ~Exists(files, SrcPath(last.name))
    /\ Exists(files, DstPath(last.name))
    /\ ~last.ret
    /\ ~last.raised

(* C2, as stated: a call of convert_icon for a name whose source file is there
   and decodable returns True and writes exactly the file <name>.bmp, 48x48,
   three channels, replacing any earlier one, and no other file. *)
C2_Original ==
    [][\A n \in AnyName :
          (CallOf(n) /\ Exists(files, SrcPath(n)) /\ Decodable(files[SrcPath(n)]))
             => WroteIcon(n)]_vars

(* C2, amended: the same, for a name whose file <name>.bmp can be written. *)
C2_ValidSource ==
    [][\A n \in AnyName :
          (/\ CallOf(n)
           /\ Exists(files, SrcPath(n))
           /\ Decodable(files[SrcPath(n)])
           /\ DstPath(n) \notin readonly)
             => WroteIcon(n)]_vars

\* "start" had a 32x32 bitmap from before, and its source is 50x3.
C2_Witness ==
    /\ pc = "called"
    /\ last.name = "start"
    /\ last.ret
    /\ OldBitmap("start").size = <<32, 32>>
    /\ files[SrcPath("start")].image.size = <<50, 3>>
    /\ IsIconBmp(files[DstPath("start")])

(* C3: the thresholded alpha of every pixel is 0 or 255: 255 when the alpha of
   the resized image is greater than 128, 0 otherwise (128 gives 0, 129 gives
   255). *)
C3_AlphaThreshold ==
    HasFrame =>
       \A y \in Rows, x \in Cols :
          LET before == frame.resized.data[y][x][4]
              after == frame.img.data[y][x][4]
          IN /\ before \in 0..255
             /\ after \in {0, 255}
             /\ (after = 255) <=> (before > 128)
             /\ (before = 128) => (after = 0)
             /\ (before = 129) => (after = 255)

\* "new_vm": every alpha value from 0 to 255 is there; the first pixel of the
\* source has alpha 128, the second 129.
C3_Witness ==
    /\ HasFrame
    /\ frame.name = "new_vm"
    /\ {frame.resized.data[y][x][4] : y \in Rows, x \in Cols} = 0..255
    /\ frame.resized.data[1][1][4] = 128
    /\ frame.img.data[1][1][4] = 0
    /\ frame.resized.data[1][4][4] = 129
    /\ frame.img.data[1][4][4] = 255

(* C4: each of the red, green and blue values of every pixel is recoloured on
   its own: a value below 50 becomes 60, a value of 50 or more stays (49 gives
   60, 50 stays 50), whatever the other two values are. *)
C4_Recolour ==
    HasFrame =>
       \A y \in Rows, x \in Cols : \A i \in 1..3 :
          LET before == frame.resized.data[y][x][i]
              after == frame.img.data[y][x][i]
          IN /\ before \in 0..255
             /\ after = IF before < 50 THEN 60 ELSE before
             /\ (before = 49) => (after = 60)
             /\ (before = 50) => (after = 50)

\* "reboot": the top left quarter is (200, 10, 10), the bottom left one
\* (49, 50, 49).
C4_Witness ==
    /\ HasFrame
    /\ frame.name = "reboot"
    /\ frame.resized.data[1][1] = <<200, 10, 10, 255>>
    /\ frame.img.data[1][1] = <<200, 60, 60, 255>>
    /\ frame.resized.data[ICON_SIZE][1] = <<49, 50, 49, 129>>
    /\ frame.img.data[ICON_SIZE][1] = <<60, 50, 60, 255>>

(* C5: every pixel of the 48x48 output has the recoloured colour of the
   resized image where the thresholded mask is 255 and the magenta background
   where it is 0, and that is the colour the written file holds; an opaque
   black region comes out (60, 60, 60), a transparent surround (255, 0, 255). *)
C5_Composite ==
    HasFrame =>
       /\ frame.result.mode = "RGB"
       /\ frame.result.size = <<ICON_SIZE, ICON_SIZE>>
       /\ \A y \in Rows, x \in Cols :
             LET p == frame.img.data[y][x]
                 q == frame.resized.data[y][x]
                 out == frame.result.data[y][x]
             IN /\ p[4] \in {0, 255}
                /\ (p[4] = 255) => (out = <<p[1], p[2], p[3]>>)
                /\ (p[4] = 0) => (out = MAGENTA)
                /\ (q = <<0, 0, 0, 255>>) => (out = <<60, 60, 60>>)
                /\ (q[4] = 0) => (out = <<255, 0, 255>>)
                /\ (pc = "called" /\ last.ret)
                      => (BmpColour(files[DstPath(last.name)], x, y) = out)

\* "edit": the opaque black square in its transparent surround.
C5_Witness ==
    /\ pc = "called"
    /\ last.name = "edit"
    /\ last.ret
    /\ frame.resized.data[24][24] = <<0, 0, 0, 255>>
    /\ BmpColour(files[DstPath("edit")], 24, 24) = <<60, 60, 60>>
    /\ frame.resized.data[1][1] = <<0, 0, 0, 0>>
    /\ BmpColour(files[DstPath("edit")], 1, 1) = <<255, 0, 255>>

(* C10: in every output a pixel has the key colour (255, 0, 255) exactly when
   its thresholded mask is 0; a pixel whose mask is 255 has every channel at
   50 or more, so that an opaque pixel, even a magenta one, never comes out in
   the key colour. *)
C10_KeyUnambiguous ==
    HasFrame =>
       \A y \in Rows, x \in Cols :
          LET mask == frame.img.data[y][x][4]
              out == frame.result.data[y][x]
          IN /\ (out = MAGENTA) <=> (mask = 0)
             /\ (mask = 255) => \A i \in 1..3 : out[i] >= 50

\* "delete": one opaque pixel of the key colour.
C10_Witness ==
    /\ pc = "called"
    /\ last.name = "delete"
    /\ last.ret
    /\ frame.resized.data[1][1] = <<255, 0, 255, 255>>
    /\ BmpColour(files[DstPath("delete")], 1, 1) = <<255, 60, 255>>

----------------------------------------------------------------------------
(* Properties of the batch.                                                 *)

Ended == pc \in {"done", "crashed"}

\* The step is the loop's call of convert_icon for ICONS[idx].
LoopStep == pc = "loop" /\ idx <= Len(ICONS) /\ calls' = Append(calls, ICONS[idx])

Summary(n) == "Converted " \o ToString(n) \o "/7 icons"

NumTrue(seq) == Cardinality({i \in 1..Len(seq) : seq[i]})

\* The names whose source file is there and decodable.
ValidSources == {n \in Names : Exists(files, SrcPath(n)) /\ Decodable(files[SrcPath(n)])}

\* The source of n is there and the call for it fails: the file is not
\* decodable, or the bitmap cannot be written.
Faulty(n) ==
    /\ Exists(files, SrcPath(n))
    /\ ~Decodable(files[SrcPath(n)]) \/ DstPath(n) \in readonly

(* C6: a run after the first one changes no file, so that every output file
   after it is the one the first run left, and it ends as the first run did:
   the same results for the names, the same count, the same lines. *)
C6_Idempotent ==
    /\ []((run >= 2 /\ Ended) => (Ending(pc, results, success, stdout) = first))
    /\ [][(first.pc # "none") => (files' = files)]_vars

C6_Witness ==
    /\ run = 2
    /\ pc = "done"
    /\ first.pc = "done"
    /\ success = 3
    /\ first.success = 3
    /\ \E n \in Names : IsIconBmp(files[DstPath(n)]) /\ files[DstPath(n)] # OldBitmap(n)

(* C7: the count is 0 when the loop starts and is, after each call, the
   number of calls that returned True; when the run reaches its summary the
   count is the number of the seven names whose source is there and valid,
   and the summary reads "<count>/7" (3 of 7 sources: "3/7"). *)
C7_SuccessCount ==
    /\ (pc \in {"loop", "done", "crashed"}) =>
          /\ success = NumTrue(results)
          /\ (idx = 1) => (success = 0)
    /\ (pc = "done") =>
          /\ Len(results) = 7
          /\ success = Cardinality(ValidSources)
          /\ stdout[Len(stdout)] = Summary(success)
          /\ (Cardinality(ValidSources) = 3) => (stdout[Len(stdout)] = "Converted 3/7 icons")

C7_Witness ==
    /\ pc = "done"
    /\ Cardinality(ValidSources) = 3
    /\ success = 3
    /\ stdout[Len(stdout)] = "Converted 3/7 icons"

(* C8, as stated: whenever a run has ended, convert_icon has been called once
   for each of the seven names, in the order of the list. *)
C8_Original == Ended => (calls = ICONS)

(* C8, amended: the names convert_icon has been called with are always the
   first names of the list, in its order, once each, and all seven when the
   run reaches its summary (a run a decode or encode failure ends stops
   there); a call changes no file but the bitmap of its own name; a call for a
   missing source changes no file and the loop goes on to the next name; and
   what a call returned is decided by its own source alone. *)
C8_Independent ==
    /\ [](/\ calls = SubSeq(ICONS, 1, Len(calls))
          /\ (pc = "done") => (calls = ICONS)
          /\ (pc \in {"loop", "done"}) =>
                /\ Len(results) = Len(calls)
                /\ \A i \in 1..Len(results) :
                      results[i] = Exists(files, SrcPath(ICONS[i])))
    /\ [][LoopStep =>
            /\ \A p \in Paths \ {DstPath(ICONS[idx])} : files'[p] = files[p]
            /\ ~Exists(files, SrcPath(ICONS[idx])) =>
                  /\ files' = files
                  /\ pc' = "loop"
                  /\ idx' = idx + 1
                  /\ results' = Append(results, FALSE)]_vars

\* "edit" is missing; the names after it were converted all the same.
C8_Witness ==
    /\ pc = "done"
    /\ calls = ICONS
    /\ ~Exists(files, SrcPath("edit"))
    /\ results = <<TRUE, FALSE, TRUE, TRUE, TRUE, TRUE, TRUE>>
    /\ files[DstPath("edit")] = OldBitmap("edit")
    /\ IsIconBmp(files[DstPath("shutdown")])

(* C9: the call for a name whose source is there but cannot be decoded, or
   whose bitmap cannot be written, ends the run at once: no later name is
   converted, no summary is printed, and the bitmaps written for the earlier
   names stay as they are; nothing more happens until the script is started
   again. *)
C9_FailureEndsRun ==
    /\ []((pc = "crashed") =>
            /\ calls = SubSeq(ICONS, 1, idx)
            /\ Faulty(ICONS[idx])
            /\ \A i \in 1..Len(stdout) : \A n \in 0..7 : stdout[i] # Summary(n)
            /\ \A j \in (idx + 1)..Len(ICONS) :
                  files[DstPath(ICONS[j])] = OldBitmap(ICONS[j])
            /\ \A j \in 1..(idx - 1) :
                  results[j] => /\ IsIconBmp(files[DstPath(ICONS[j])])
                                /\ files[DstPath(ICONS[j])] # OldBitmap(ICONS[j]))
    /\ [][/\ (LoopStep /\ Faulty(ICONS[idx])) => (pc' = "crashed" /\ files' = files)
          /\ (pc = "crashed") => (pc' = "loop" /\ run' = run + 1 /\ files' = files)]_vars

\* The last name's source is there and was not converted; the first name's was.
C9_Witness ==
    /\ pc = "crashed"
    /\ idx \in 2..6
    /\ results[1]
    /\ IsIconBmp(files[DstPath(ICONS[1])])
    /\ Exists(files, SrcPath(ICONS[7]))
    /\ Decodable(files[SrcPath(ICONS[7])])
    /\ files[DstPath(ICONS[7])] = OldBitmap(ICONS[7])

====
